---- MODULE Spec2Model ----
(***************************************************************************)
(* The move-selection core of react-native-chess: class ChessAI of         *)
(* src/app/(tabs)/chess.tsx (getBestMove, minimax, evaluatePosition,       *)
(* getPositionValue) together with the part of the chess.js rules engine   *)
(* that the class calls (moves, move, fen, turn, board, isCheckmate,       *)
(* isDraw, isGameOver).                                                    *)
(*                                                                         *)
(* Conventions.                                                            *)
(*  - A square is the number 8*rank + file, where rank and file are the    *)
(*    indices of game.board(): rank 0 is the eighth rank, file 0 is the    *)
(*    a-file.  A board is a function from its occupied squares to pieces.  *)
(*  - Scores are kept in tenths of a point, so that the tables' halves and *)
(*    the evaluator's noise are integers: 1000 is written 10000, 0.5 is 5. *)
(*  - Castling rights are empty in every position considered (the kings    *)
(*    have moved), so the rules engine generates no castling move.         *)
(***************************************************************************)
EXTENDS Integers, Sequences, FiniteSets, TLC

(***************************************************************************)
(* chess.js: squares, pieces, attacks                                      *)
(***************************************************************************)

\* An empty square of game.board() (null in the code).
NoPiece == [type |-> "", color |-> ""]

\* No en-passant square ("-" in the FEN).
NoSquare == 64

Piece(c, t) == [type |-> t, color |-> c]

Rank(s) == s \div 8

File(s) == s % 8

Sq(r, f) == 8 * r + f

OnBoard(r, f) == r >= 0 /\ r <= 7 /\ f >= 0 /\ f <= 7

Other(c) == IF c = "w" THEN "b" ELSE "w"

Abs(x) == IF x < 0 THEN -x ELSE x

Sgn(x) == IF x < 0 THEN -1 ELSE IF x > 0 THEN 1 ELSE 0

PieceAt(b, s) == IF s \in DOMAIN b THEN b[s] ELSE NoPiece

\* The squares strictly between t and s, on a common rank, file or diagonal, are empty.
PathClear(b, t, s) ==
    LET dr == Sgn(Rank(s) - Rank(t))
        df == Sgn(File(s) - File(t))
        n  == IF Abs(Rank(s) - Rank(t)) > Abs(File(s) - File(t))
              THEN Abs(Rank(s) - Rank(t)) ELSE Abs(File(s) - File(t))
    IN  \A k \in 1..(n - 1) : Sq(Rank(t) + k * dr, File(t) + k * df) \notin DOMAIN b

\* The piece on t attacks the square s.
Attacks(b, t, s) ==
    LET p  == b[t]
        dr == Rank(s) - Rank(t)
        df == File(s) - File(t)
    IN  /\ t # s
        /\ CASE p.type = "p" -> dr = (IF p.color = "w" THEN -1 ELSE 1) /\ Abs(df) = 1
             [] p.type = "n" -> {Abs(dr), Abs(df)} = {1, 2}
             [] p.type = "k" -> Abs(dr) <= 1 /\ Abs(df) <= 1
             [] p.type = "r" -> (dr = 0 \/ df = 0) /\ PathClear(b, t, s)
             [] p.type = "b" -> Abs(dr) = Abs(df) /\ PathClear(b, t, s)
             [] p.type = "q" -> (dr = 0 \/ df = 0 \/ Abs(dr) = Abs(df)) /\ PathClear(b, t, s)
             [] OTHER -> FALSE

\* Some piece of colour by attacks the square s.
Attacked(b, s, by) == \E t \in DOMAIN b : b[t].color = by /\ Attacks(b, t, s)

KingSq(b, c) == CHOOSE s \in DOMAIN b : b[s] = Piece(c, "k")

\* game.isCheck(): the king of the side to move is attacked.
isCheck(g) == Attacked(g.board, KingSq(g.board, g.turn), Other(g.turn))

(***************************************************************************)
(* chess.js: move generation, in the engine's order (by origin square,     *)
(* then by the piece's directions)                                         *)
(***************************************************************************)

RECURSIVE SortedSeq(_)
\* The squares of S in increasing order.
SortedSeq(S) ==
    IF S = {} THEN <<>>
    ELSE LET m == CHOOSE x \in S : \A y \in S : x <= y
         IN  <<m>> \o SortedSeq(S \ {m})

RECURSIVE Ray(_, _, _, _, _)
\* The squares from (r, f) in direction (dr, df), up to and including the first occupied one.
Ray(b, r, f, dr, df) ==
    IF ~OnBoard(r + dr, f + df) THEN <<>>
    ELSE IF Sq(r + dr, f + df) \in DOMAIN b THEN <<Sq(r + dr, f + df)>>
    ELSE <<Sq(r + dr, f + df)>> \o Ray(b, r + dr, f + df, dr, df)

KnightOffsets == << <<-2, -1>>, <<-2, 1>>, <<-1, -2>>, <<-1, 2>>,
                    <<1, -2>>, <<1, 2>>, <<2, -1>>, <<2, 1>> >>

KingOffsets == << <<-1, -1>>, <<-1, 0>>, <<-1, 1>>, <<0, -1>>,
                  <<0, 1>>, <<1, -1>>, <<1, 0>>, <<1, 1>> >>

RookDirs == << <<-1, 0>>, <<0, -1>>, <<0, 1>>, <<1, 0>> >>

BishopDirs == << <<-1, -1>>, <<-1, 1>>, <<1, -1>>, <<1, 1>> >>

RECURSIVE Steps(_, _, _)
\* The on-board squares one offset away from s, in the order of the offsets.
Steps(s, offs, i) ==
    IF i > Len(offs) THEN <<>>
    ELSE (IF OnBoard(Rank(s) + offs[i][1], File(s) + offs[i][2])
          THEN <<Sq(Rank(s) + offs[i][1], File(s) + offs[i][2])>> ELSE <<>>)
         \o Steps(s, offs, i + 1)

RECURSIVE Slides(_, _, _, _)
Slides(b, s, dirs, i) ==
    IF i > Len(dirs) THEN <<>>
    ELSE Ray(b, Rank(s), File(s), dirs[i][1], dirs[i][2]) \o Slides(b, s, dirs, i + 1)

\* A verbose move of chess.js: captured and promotion are "" when absent.
Mv(from, to, piece, captured, promotion, flags) ==
    [from |-> from, to |-> to, piece |-> piece, captured |-> captured,
     promotion |-> promotion, flags |-> flags]

Promotions == <<"q", "r", "b", "n">>

\* The moves of a pawn to one target square: four promotions on the last rank.
PawnTo(from, to, c, captured, flags) ==
    IF Rank(to) = (IF c = "w" THEN 0 ELSE 7)
    THEN [i \in 1..4 |-> Mv(from, to, "p", captured, Promotions[i], flags)]
    ELSE <<Mv(from, to, "p", captured, "", flags)>>

PawnCapture(g, s, c, df) ==
    LET r  == Rank(s) + (IF c = "w" THEN -1 ELSE 1)
        f  == File(s) + df
    IN  IF ~OnBoard(r, f) THEN <<>>
        ELSE IF PieceAt(g.board, Sq(r, f)).color = Other(c)
             THEN PawnTo(s, Sq(r, f), c, g.board[Sq(r, f)].type, "c")
        ELSE IF Sq(r, f) = g.ep THEN <<Mv(s, Sq(r, f), "p", "p", "", "e")>>
        ELSE <<>>

PawnMoves(g, s) ==
    LET c    == g.turn
        d    == IF c = "w" THEN -1 ELSE 1
        home == IF c = "w" THEN 6 ELSE 1
        one  == s + 8 * d
        two  == s + 16 * d
    IN  (IF one \notin DOMAIN g.board
         THEN PawnTo(s, one, c, "", "n")
              \o (IF Rank(s) = home /\ two \notin DOMAIN g.board
                  THEN <<Mv(s, two, "p", "", "", "b")>> ELSE <<>>)
         ELSE <<>>)
        \o PawnCapture(g, s, c, -1) \o PawnCapture(g, s, c, 1)

RECURSIVE PieceTo(_, _, _, _)
\* The moves of the non-pawn piece on s to the squares of the sequence tos.
PieceTo(g, s, tos, i) ==
    IF i > Len(tos) THEN <<>>
    ELSE LET q == PieceAt(g.board, tos[i])
         IN  (IF q = NoPiece THEN <<Mv(s, tos[i], g.board[s].type, "", "", "n")>>
              ELSE IF q.color # g.turn
                   THEN <<Mv(s, tos[i], g.board[s].type, q.type, "", "c")>>
              ELSE <<>>)
             \o PieceTo(g, s, tos, i + 1)

MovesFrom(g, s) ==
    LET t == g.board[s].type
    IN  CASE t = "p" -> PawnMoves(g, s)
          [] t = "n" -> PieceTo(g, s, Steps(s, KnightOffsets, 1), 1)
          [] t = "k" -> PieceTo(g, s, Steps(s, KingOffsets, 1), 1)
          [] t = "r" -> PieceTo(g, s, Slides(g.board, s, RookDirs, 1), 1)
          [] t = "b" -> PieceTo(g, s, Slides(g.board, s, BishopDirs, 1), 1)
          [] t = "q" -> PieceTo(g, s, Slides(g.board, s, RookDirs \o BishopDirs, 1), 1)

RECURSIVE MovesOfSquares(_, _, _)
MovesOfSquares(g, sqs, i) ==
    IF i > Len(sqs) THEN <<>>
    ELSE MovesFrom(g, sqs[i]) \o MovesOfSquares(g, sqs, i + 1)

\* Every move of the side to move, whether or not it leaves the own king attacked.
PseudoMoves(g) ==
    MovesOfSquares(g, SortedSeq({s \in DOMAIN g.board : g.board[s].color = g.turn}), 1)

\* The board after the move m.
BoardAfter(b, m) ==
    LET gone  == {m.from} \cup (IF m.flags = "e" THEN {Sq(Rank(m.from), File(m.to))} ELSE {})
        p     == PieceAt(b, m.from)
        moved == IF m.promotion # "" THEN Piece(p.color, m.promotion) ELSE p
    IN  [s \in ((DOMAIN b) \ gone) \cup {m.to} |-> IF s = m.to THEN moved ELSE b[s]]

\* game.move(m) on a game whose history holds no earlier position: the half-move clock
\* restarts on a pawn move or a capture, a double pawn push sets the en-passant square.
MakeMove(g, m) ==
    [board |-> BoardAfter(g.board, m),
     turn  |-> Other(g.turn),
     ep    |-> IF m.flags = "b" THEN (m.from + m.to) \div 2 ELSE NoSquare,
     half  |-> IF m.piece = "p" \/ m.captured # "" THEN 0 ELSE g.half + 1,
     reps  |-> 1]

\* A pseudo-legal move is legal when it does not leave the mover's king attacked.
Legal(g, m) ==
    LET b == BoardAfter(g.board, m)
    IN  ~Attacked(b, KingSq(b, g.turn), Other(g.turn))

\* game.moves({ verbose: true })
moves(g) == SelectSeq(PseudoMoves(g), LAMBDA m : Legal(g, m))

\* game.moves().length > 0
HasMoves(g) ==
    \E s \in DOMAIN g.board :
        /\ g.board[s].color = g.turn
        /\ LET ms == MovesFrom(g, s) IN \E i \in 1..Len(ms) : Legal(g, ms[i])

isCheckmate(g) == isCheck(g) /\ ~HasMoves(g)

isStalemate(g) == ~isCheck(g) /\ ~HasMoves(g)

\* Two bare kings, a king and a single minor piece, or only bishops of one square colour.
isInsufficientMaterial(g) ==
    LET b       == g.board
        n       == Cardinality(DOMAIN b)
        bishops == {s \in DOMAIN b : b[s].type = "b"}
        knights == {s \in DOMAIN b : b[s].type = "n"}
    IN  \/ n = 2
        \/ n = 3 /\ (Cardinality(bishops) = 1 \/ Cardinality(knights) = 1)
        \/ /\ n = Cardinality(bishops) + 2
           /\ \A s, t \in bishops : (Rank(s) + File(s)) % 2 = (Rank(t) + File(t)) % 2

isThreefoldRepetition(g) == g.reps >= 3

\* The 50-move rule (100 half-moves), threefold repetition, insufficient material or
\* stalemate.
isDraw(g) ==
    \/ g.half >= 100
    \/ isThreefoldRepetition(g)
    \/ isInsufficientMaterial(g)
    \/ isStalemate(g)

\* Checkmate, stalemate or a draw: a draw, or no legal move.
isGameOver(g) == isDraw(g) \/ ~HasMoves(g)

\* new Chess(game.fen()): the FEN carries placement, side to move, en-passant square and
\* half-move clock, and not the game's history.
NewChessFromFen(g) ==
    [board |-> g.board, turn |-> g.turn, ep |-> g.ep, half |-> g.half, reps |-> 1]

(***************************************************************************)
(* ChessAI: constants                                                      *)
(***************************************************************************)

\* Number.POSITIVE_INFINITY; -Infinity is its negation.
Infinity == 1000000000

PIECE_VALUES ==
    [p |-> 10, n |-> 30, b |-> 30, r |-> 50, q |-> 90, k |-> 1000]

PAWN_POSITION_VALUES ==
    << <<0, 0, 0, 0, 0, 0, 0, 0>>,
       <<50, 50, 50, 50, 50, 50, 50, 50>>,
       <<10, 10, 20, 30, 30, 20, 10, 10>>,
       <<5, 5, 10, 25, 25, 10, 5, 5>>,
       <<0, 0, 0, 20, 20, 0, 0, 0>>,
       <<5, -5, -10, 0, 0, -10, -5, 5>>,
       <<5, 10, 10, -20, -20, 10, 10, 5>>,
       <<0, 0, 0, 0, 0, 0, 0, 0>> >>

KNIGHT_POSITION_VALUES ==
    << <<-50, -40, -30, -30, -30, -30, -40, -50>>,
       <<-40, -20, 0, 0, 0, 0, -20, -40>>,
       <<-30, 0, 10, 15, 15, 10, 0, -30>>,
       <<-30, 5, 15, 20, 20, 15, 5, -30>>,
       <<-30, 0, 15, 20, 20, 15, 0, -30>>,
       <<-30, 5, 10, 15, 15, 10, 5, -30>>,
       <<-40, -20, 0, 5, 5, 0, -20, -40>>,
       <<-50, -40, -30, -30, -30, -30, -40, -50>> >>

BISHOP_POSITION_VALUES ==
    << <<-20, -10, -10, -10, -10, -10, -10, -20>>,
       <<-10, 0, 0, 0, 0, 0, 0, -10>>,
       <<-10, 0, 5, 10, 10, 5, 0, -10>>,
       <<-10, 5, 5, 10, 10, 5, 5, -10>>,
       <<-10, 0, 10, 10, 10, 10, 0, -10>>,
       <<-10, 10, 10, 10, 10, 10, 10, -10>>,
       <<-10, 5, 0, 0, 0, 0, 5, -10>>,
       <<-20, -10, -10, -10, -10, -10, -10, -20>> >>

ROOK_POSITION_VALUES ==
    << <<0, 0, 0, 0, 0, 0, 0, 0>>,
       <<5, 10, 10, 10, 10, 10, 10, 5>>,
       <<-5, 0, 0, 0, 0, 0, 0, -5>>,
       <<-5, 0, 0, 0, 0, 0, 0, -5>>,
       <<-5, 0, 0, 0, 0, 0, 0, -5>>,
       <<-5, 0, 0, 0, 0, 0, 0, -5>>,
       <<-5, 0, 0, 0, 0, 0, 0, -5>>,
       <<0, 0, 0, 5, 5, 0, 0, 0>> >>

QUEEN_POSITION_VALUES ==
    << <<-20, -10, -10, -5, -5, -10, -10, -20>>,
       <<-10, 0, 0, 0, 0, 0, 0, -10>>,
       <<-10, 0, 5, 5, 5, 5, 0, -10>>,
       <<-5, 0, 5, 5, 5, 5, 0, -5>>,
       <<0, 0, 5, 5, 5, 5, 0, -5>>,
       <<-10, 5, 5, 5, 5, 5, 0, -10>>,
       <<-10, 0, 5, 0, 0, 0, 0, -10>>,
       <<-20, -10, -10, -5, -5, -10, -10, -20>> >>

KING_POSITION_VALUES ==
    << <<-30, -40, -40, -50, -50, -40, -40, -30>>,
       <<-30, -40, -40, -50, -50, -40, -40, -30>>,
       <<-30, -40, -40, -50, -50, -40, -40, -30>>,
       <<-30, -40, -40, -50, -50, -40, -40, -30>>,
       <<-20, -30, -30, -40, -40, -30, -30, -20>>,
       <<-10, -20, -20, -20, -20, -20, -20, -10>>,
       <<20, 20, 0, 0, 0, 0, 20, 20>>,
       <<20, 30, 10, 0, 0, 10, 30, 20>> >>

Difficulties == {"easy", "medium", "hard"}

(***************************************************************************)
(* ChessAI: the evaluator                                                  *)
(***************************************************************************)

getPositionTable(pieceType) ==
    CASE pieceType = "p" -> PAWN_POSITION_VALUES
      [] pieceType = "n" -> KNIGHT_POSITION_VALUES
      [] pieceType = "b" -> BISHOP_POSITION_VALUES
      [] pieceType = "r" -> ROOK_POSITION_VALUES
      [] pieceType = "q" -> QUEEN_POSITION_VALUES
      [] pieceType = "k" -> KING_POSITION_VALUES
      [] OTHER -> [r \in 1..8 |-> [f \in 1..8 |-> 0]]

\* A faulty lookup that reads the table at the same rank for both colours.
getPositionValueSameRank(piece, rank, file) ==
    getPositionTable(piece.type)[rank + 1][file + 1]

\* rank and file are the indices of game.board(); the tables are indexed from 1 here.
getPositionValue(piece, rank, file) ==
    LET positionValues == getPositionTable(piece.type)
        actualRank     == IF piece.color = "w" THEN 7 - rank ELSE rank
    IN  positionValues[actualRank + 1][file + 1]

RECURSIVE boardScore(_, _)
\* The loop over the 64 squares of game.board(): empty squares are skipped, so the sum
\* runs over the occupied squares sqs of the board b.
boardScore(b, sqs) ==
    IF sqs = {} THEN 0
    ELSE LET s          == CHOOSE x \in sqs : TRUE
             piece      == b[s]
             totalValue == PIECE_VALUES[piece.type] + getPositionValue(piece, Rank(s), File(s))
         IN  (IF piece.color = "w" THEN totalValue ELSE -totalValue)
             + boardScore(b, sqs \ {s})

\* The state of the running call that the randomness of a faulty tier can depend on;
\* the rest of the state is declared with the state machine.
VARIABLES
    idx,           \* the position of the for-of loop in orderedMoves
    prev           \* the result of the latest earlier hard-tier call on this position
                   \* during which the deadline did not pass

\* The values of Math.random() used for the evaluator's noise, in tenths.
NoiseDraws == {0, 3, 5, 9}

\* Math.random() as a generator with a hidden state: a call returns the draw that the
\* state selects and moves the state on.  The states are the Seeds; the generator goes
\* through all of them, and through every draw of NoiseDraws, before it repeats.
Seeds == 0..15

nextSeed(x) == (5 * x + 3) % 16

randomOf(x) == <<0, 3, 5, 9>>[(x \div 4) + 1]

RECURSIVE seedAt(_, _)
\* The generator's state at its k-th call when it started from the state x.
seedAt(x, k) == IF k <= 1 THEN x ELSE seedAt(nextSeed(x), k - 1)

\* A faulty noise rule under which the hard tier gets randomness too, two hundred times
\* the medium tier's, drawn at each root move from a generator whose state an earlier
\* call has moved on.
noiseInHardTier(difficulty) ==
    IF difficulty = "easy" THEN {(rnd - 5) * 2 : rnd \in NoiseDraws}
    ELSE IF difficulty = "medium" THEN {(rnd - 5) * 1 : rnd \in NoiseDraws}
    ELSE {(randomOf(seedAt(IF prev.called THEN 7 ELSE 0, idx)) - 5) * 200}

\* The randomness added for the easier difficulties: what the evaluator may add to a
\* score in each tier, Math.random() being one of NoiseDraws.
noise(difficulty) ==
    IF difficulty = "easy" THEN {(rnd - 5) * 2 : rnd \in NoiseDraws}
    ELSE IF difficulty = "medium" THEN {(rnd - 5) * 1 : rnd \in NoiseDraws}
    ELSE {0}

\* A faulty randomness that gives every tier but hard the easy tier's range.
noiseAtEasyRange(difficulty, x, k) ==
    IF difficulty = "hard" THEN 0 ELSE (randomOf(seedAt(x, k)) - 5) * 2

\* The randomness the evaluator adds at the k-th call of Math.random() since the state x.
noiseAt(difficulty, x, k) ==
    IF difficulty = "easy" THEN (randomOf(seedAt(x, k)) - 5) * 2
    ELSE IF difficulty = "medium" THEN (randomOf(seedAt(x, k)) - 5) * 1
    ELSE 0

\* A faulty evaluator that adds the randomness to the checkmate scores too.
evaluatePositionNoisyMate(g, added) ==
    IF isCheckmate(g) THEN (IF g.turn = "w" THEN -10000 ELSE 10000) + added
    ELSE IF isDraw(g) THEN 0
    ELSE boardScore(g.board, DOMAIN g.board) + added

\* A faulty evaluator that scores a stalemate by material like any other position.
evaluatePositionStalemateByMaterial(g, added) ==
    IF isCheckmate(g) THEN (IF g.turn = "w" THEN -10000 ELSE 10000)
    ELSE IF isDraw(g) /\ ~isStalemate(g) THEN 0
    ELSE boardScore(g.board, DOMAIN g.board) + added

\* added is the randomness drawn for this call, one of noise(this.settings.difficulty).
evaluatePosition(g, added) ==
    IF isCheckmate(g) THEN (IF g.turn = "w" THEN -10000 ELSE 10000)
    ELSE IF isDraw(g) THEN 0
    ELSE boardScore(g.board, DOMAIN g.board) + added

(***************************************************************************)
(* ChessAI: move ordering and minimax                                      *)
(***************************************************************************)

\* A faulty ordering that leaves the moves in the engine's order.
engineOrder(ms) == ms

\* sort((a, b) => (b.captured ? 1 : 0) - (a.captured ? 1 : 0)): the sort is stable, so
\* the captures come first and each group keeps the engine's order.
sortCapturesFirst(ms) ==
    SelectSeq(ms, LAMBDA m : m.captured # "") \o SelectSeq(ms, LAMBDA m : m.captured = "")

\* A faulty application that makes the move on the caller's own object and takes it
\* back by hand: the pieces and the turn are restored, the half-move clock is not.
applyInPlace(g, move) ==
    [caller |-> [g EXCEPT !.half = MakeMove(g, move).half], child |-> MakeMove(g, move)]

\* const newGame = new Chess(game.fen()); newGame.move(move): the move is made on a
\* fresh object, and the object the caller holds stays as it is.
applyOnCopy(g, move) ==
    [caller |-> g, child |-> MakeMove(NewChessFromFen(g), move)]

\* The clock inside one minimax call: budget is the number of coming reads of Date.now()
\* that still return a time up to the deadline; NoDeadline stands for a deadline that
\* never passes.
NoDeadline == -1

\* A faulty clock test that never finds the deadline passed.
pastDeadlineNever(budget) == FALSE

pastDeadline(budget) == budget = 0

afterRead(budget) == IF budget > 0 THEN budget - 1 ELSE budget

Max(a, b) == IF a >= b THEN a ELSE b

\* A faulty minimum that keeps the value accumulated so far.
MinKeepsFirst(a, b) == a

Min(a, b) == IF a <= b THEN a ELSE b

RECURSIVE minimax(_, _, _, _, _, _, _)
RECURSIVE minimaxLoop(_, _, _, _, _, _, _, _, _, _, _, _, _, _)

\* A faulty cut-off that leaves the loop after the first child whatever the bounds.
pruneAlways(alpha, beta) == TRUE

\* if (beta <= alpha) break
prune(alpha, beta) == beta <= alpha

\* The loop over the children of a node: acc is maxEval or minEval so far, evals the
\* number of evaluatePosition calls so far, cuts the number of loops left by the break
\* with children still to explore, nodes the number of calls that generated moves, wrong
\* the number of calls whose isMaximizing was not "White is to move in the position given".
minimaxLoop(g, ms, i, depth, isMaximizing, acc, alpha, beta, budget, evals, cuts, nodes, wrong, added) ==
    IF i > Len(ms)
    THEN [v |-> acc, budget |-> budget, evals |-> evals, cuts |-> cuts, nodes |-> nodes,
          wrong |-> wrong, game |-> g]
    ELSE LET ac         == applyOnCopy(g, ms[i])
             r          == minimax(ac.child, depth - 1, ~isMaximizing, alpha, beta,
                                   budget, added)
             evaluation == r.v
             acc2       == IF isMaximizing THEN Max(acc, evaluation) ELSE Min(acc, evaluation)
             alpha2     == IF isMaximizing THEN Max(alpha, evaluation) ELSE alpha
             beta2      == IF isMaximizing THEN beta ELSE Min(beta, evaluation)
         IN  IF prune(alpha2, beta2)
             THEN [v |-> acc2, budget |-> r.budget, evals |-> evals + r.evals,
                   cuts |-> cuts + r.cuts + (IF i < Len(ms) THEN 1 ELSE 0),
                   nodes |-> nodes + r.nodes, wrong |-> wrong + r.wrong,
                   game |-> ac.caller]
             ELSE minimaxLoop(ac.caller, ms, i + 1, depth, isMaximizing, acc2, alpha2, beta2,
                              r.budget, evals + r.evals, cuts + r.cuts, nodes + r.nodes,
                              wrong + r.wrong, added)

\* The result holds the value returned (v), the clock budget left, the number of
\* evaluatePosition calls made, the number of pruning breaks, the number of calls that
\* generated moves, the number of calls (this one and those below it) whose isMaximizing
\* was not "White is to move", and the game object the call was given, as the call
\* leaves it.
minimax(g, depth, isMaximizing, alpha, beta, budget, added) ==
    IF pastDeadline(budget) \/ depth = 0 \/ isGameOver(g)
    THEN [v |-> evaluatePosition(g, added), budget |-> afterRead(budget),
          evals |-> 1, cuts |-> 0, nodes |-> 0,
          wrong |-> (IF isMaximizing = (g.turn = "w") THEN 0 ELSE 1), game |-> g]
    ELSE minimaxLoop(g, sortCapturesFirst(moves(g)), 1, depth, isMaximizing,
                     IF isMaximizing THEN -Infinity ELSE Infinity,
                     alpha, beta, afterRead(budget), 0, 0, 1,
                     IF isMaximizing = (g.turn = "w") THEN 0 ELSE 1, added)

(***************************************************************************)
(* The positions and settings getBestMove is called with                   *)
(***************************************************************************)

\* The largest search depth configured (AISettings.depth ranges over 1..MaxDepth).
MaxDepth == 3

\* The largest number of clock reads inside one minimax call after which the deadline
\* may pass; the deadline may also pass at no read of the call at all (NoDeadline).
MaxReads == 2

\* The square on file f (0 is the a-file) and rank r (1..8, as on the board).
At(f, r) == Sq(8 - r, f)

\* The board holding the pieces ps, a set of <<square, colour, type>>.
Board(ps) ==
    [s \in {p[1] : p \in ps} |-> LET p == CHOOSE q \in ps : q[1] = s IN Piece(p[2], p[3])]

Position(b, t, ep, half, reps) ==
    [board |-> b, turn |-> t, ep |-> ep, half |-> half, reps |-> reps]

\* Black king in the corner, White king beside it and a White pawn on the seventh rank:
\* promotions that mate, stalemate or leave insufficient material.
PromotionCorner ==
    Board({<<At(0, 8), "b", "k">>, <<At(1, 6), "w", "k">>, <<At(2, 7), "w", "p">>})

\* A rook that mates on the eighth rank, and a pawn it can capture on the way.
RookMate ==
    Board({<<At(0, 8), "b", "k">>, <<At(1, 6), "w", "k">>, <<At(7, 7), "w", "r">>,
           <<At(7, 3), "b", "p">>})

\* Pawns that can capture each other.
PawnFight ==
    Board({<<At(4, 8), "b", "k">>, <<At(4, 1), "w", "k">>, <<At(3, 4), "w", "p">>,
           <<At(4, 5), "b", "p">>})

\* A knight that can be captured, and that can capture.
KnightFight ==
    Board({<<At(6, 8), "b", "k">>, <<At(6, 6), "w", "k">>, <<At(5, 5), "w", "p">>,
           <<At(7, 5), "b", "n">>})

\* A Black pawn has just advanced two squares beside a White pawn: en passant.
EnPassant ==
    Position(Board({<<At(4, 8), "b", "k">>, <<At(4, 1), "w", "k">>, <<At(4, 5), "w", "p">>,
                    <<At(3, 5), "b", "p">>}), "w", At(3, 6), 0, 1)

\* Both kings stand on the board apart from each other, no pawn stands on a last rank
\* and the side that has just moved is not in check.
ValidPosition(g) ==
    /\ \A c \in {"w", "b"} : \E s \in DOMAIN g.board : g.board[s] = Piece(c, "k")
    /\ ~Attacks(g.board, KingSq(g.board, "w"), KingSq(g.board, "b"))
    /\ \A s \in DOMAIN g.board : g.board[s].type = "p" => Rank(s) \in 1..6
    /\ ~Attacked(g.board, KingSq(g.board, Other(g.turn)), g.turn)

\* The position with every piece on the rank-mirrored square, the colours and the side to
\* move swapped.
ColorMirror(g) ==
    LET flip(s) == Sq(7 - Rank(s), File(s))
    IN  [board |-> [s \in {flip(t) : t \in DOMAIN g.board} |->
                       Piece(Other(g.board[flip(s)].color), g.board[flip(s)].type)],
         turn  |-> Other(g.turn),
         ep    |-> IF g.ep = NoSquare THEN NoSquare ELSE flip(g.ep),
         half  |-> g.half,
         reps  |-> g.reps]

Successors(g) == LET ms == moves(g) IN {MakeMove(g, ms[i]) : i \in 1..Len(ms)}

BasePositions ==
    LET fresh  == { Position(b, t, NoSquare, 0, 1) :
                      b \in {PromotionCorner, RookMate, PawnFight, KnightFight},
                      t \in {"w", "b"} }
        fifty  == { Position(PawnFight, "w", NoSquare, 99, 1) }
        thrice == { Position(KnightFight, "b", NoSquare, 4, 3) }
        start  == {g \in fresh \cup fifty \cup thrice \cup {EnPassant} : ValidPosition(g)}
        hundred  == {g \in Successors(Position(RookMate, "w", NoSquare, 99, 1)) :
                       isCheckmate(g)}
        promoted == {g \in Successors(Position(PromotionCorner, "w", NoSquare, 0, 1)) :
                       \E s \in DOMAIN g.board : g.board[s].type \in {"q", "n"}}
    IN  start \cup promoted \cup hundred

\* The positions a call is made on: the base positions, and the colour mirrors of those
\* on the promotion corner's board and of those it leads to.
Positions ==
    BasePositions
    \cup {ColorMirror(g) : g \in {h \in BasePositions : Cardinality(DOMAIN h.board) = 3}}

\* createChessAI's timeLimitMap.
timeLimitMap == [easy |-> 400, medium |-> 800, hard |-> 1500]

\* createChessAI's depthMap for the tiers that do not read the depth.
depthMap == [easy |-> 2, medium |-> 3, hard |-> 4]

\* The hard tier with every depth, the easy and the medium tier as createChessAI makes
\* them, and the medium tier with another depth (updateSettings).
Settings ==
    { [depth |-> d, difficulty |-> "hard", timeLimitMs |-> timeLimitMap["hard"]] :
        d \in 1..MaxDepth }
    \cup { [depth |-> depthMap[df], difficulty |-> df, timeLimitMs |-> timeLimitMap[df]] :
             df \in {"easy", "medium"} }
    \cup { [depth |-> 1, difficulty |-> "medium", timeLimitMs |-> timeLimitMap["medium"]] }

\* The clock budgets of one minimax call.
Budgets == (0..MaxReads) \cup {NoDeadline}

(***************************************************************************)
(* The state                                                               *)
(***************************************************************************)

VARIABLES
    game,          \* the Chess object the caller holds and passes to getBestMove
    settings,      \* this.settings
    pc,            \* where the caller or the running call stands
    orderedMoves,  \* pool (easy), ordered (medium) or orderedMoves (hard)
    depth,         \* the depth of the running iteration of the deepening loop
    bestScore,     \* bestScore (medium) or bestScoreAtDepth (hard)
    bestMove,      \* bestMove (medium) or bestMoveAtDepth (hard)
    selectedMove,  \* selectedMove (hard)
    late,          \* the last read of Date.now() was past the deadline
    result,        \* what getBestMove returned
    evals,         \* the number of evaluatePosition calls of the running call
    cuts,          \* the number of alpha-beta breaks of the running call
    gameAtCall,    \* the value of game when the running call began
    evalOut,       \* the outcome of a direct evaluation of game and of its colour mirror
    searchOut,     \* the outcome of a direct call of minimax on game
    objects,       \* the settings objects of ChessAI's caller: the one it gave to the
                   \* constructor (given), whether this.settings is that very object
                   \* (aliased), the one getSettings returned (got), and the argument
                   \* of the last updateSettings (update)
    screen,        \* the state of ChessScreen: game, isAITurn, awaitingBestMoveRef, the
                   \* position sent to the engine, the watchdog and the move last played
    seed,          \* the state of Math.random() when the medium tier's loop begins
    rootScores,    \* the scores given so far to the moves of orderedMoves by the running
                   \* loop (medium tier, or the running depth of the hard tier)
    wrong,         \* the number of minimax calls made so far by the running call whose
                   \* isMaximizing was not "White is to move in the position given"
    app            \* ChessScreen and its ChessBoard with the user, the timers and the
                   \* engine around them (see the section on the screen's interleavings)

vars == <<game, settings, pc, orderedMoves, depth, idx, bestScore, bestMove, selectedMove,
          late, result, evals, cuts, gameAtCall, prev, evalOut, searchOut, objects,
          screen, seed, rootScores, wrong, app>>

\* null, as a move and as a result.
NullMove == Mv(NoSquare, NoSquare, "", "", "", "")

NullResult == [from |-> NoSquare, to |-> NoSquare, promotion |-> ""]

\* { from: m.from, to: m.to, promotion: m.promotion }
AIMove(m) == [from |-> m.from, to |-> m.to, promotion |-> m.promotion]

NoPrev == [called |-> FALSE, result |-> NullResult]

\* No object (null), and the empty argument of updateSettings ({}).
NoSettings == [depth |-> 0, difficulty |-> "", timeLimitMs |-> 0]

NoUpdate == [none \in {} |-> 0]

NoSearch == [depth |-> 0, budget |-> 0, v |-> 0, evals |-> 0, nodes |-> 0, wrong |-> 0]

NoEval == [difficulty |-> "", score |-> 0, mirrored |-> 0]

\* The screen before it is mounted: the steps of ChessAI run without it.
NoApp == [mounted |-> FALSE]

\* A faulty flag for the root's minimax calls: the side that has just moved maximizes.
rootIsMaximizingOfMover(newGame) == newGame.turn # "w"

\* newGame.turn() === "w", the isMaximizing argument of the root's minimax calls
rootIsMaximizing(newGame) == newGame.turn = "w"

Init ==
    /\ game \in Positions
    /\ settings \in Settings
    /\ pc = "idle"
    /\ orderedMoves = <<>>
    /\ depth = 0
    /\ idx = 0
    /\ bestScore = 0
    /\ bestMove = NullMove
    /\ selectedMove = NullMove
    /\ late = FALSE
    /\ result = NullResult
    /\ evals = 0
    /\ cuts = 0
    /\ gameAtCall = game
    /\ prev = NoPrev
    /\ evalOut = NoEval
    /\ searchOut = NoSearch
    /\ objects = [given |-> settings, aliased |-> TRUE, got |-> NoSettings,
                  update |-> NoUpdate]
    /\ screen = [game |-> game, isAITurn |-> FALSE, awaiting |-> FALSE, fenNow |-> game,
                 watchdog |-> FALSE, played |-> NullResult, source |-> ""]
    /\ seed = 0
    /\ rootScores = <<>>
    /\ wrong = 0
    /\ app = NoApp

(***************************************************************************)
(* getBestMove                                                             *)
(***************************************************************************)

\* A faulty comparison that takes the larger score for either side.
betterForWhite(isWhite, score, best) == score > best

\* A faulty comparison under which an equal score replaces the best one too.
notWorse(isWhite, score, best) == IF isWhite THEN score >= best ELSE score <= best

\* The move's score replaces the best one only when strictly better for the side to move.
better(isWhite, score, best) == IF isWhite THEN score > best ELSE score < best

\* pool[Math.floor(Math.random() * pool.length)], rnd being Math.random() in tenths.
pick(pool, rnd) == pool[((rnd * Len(pool)) \div 10) + 1]

\* The values of Math.random() in the easy tier's choice, in tenths.
RandomDraws == 0..9

\* A faulty guard that never takes the early return.
noMovesNever(ms) == FALSE

\* if (moves.length === 0)
noMoves(ms) == Len(ms) = 0

\* A faulty pool that holds every move even when a capture is available.
easyPoolAllMoves(ms) == ms

\* The easy tier: a capture when there is one, any move otherwise.
easyPool(ms) ==
    LET capturing == SelectSeq(ms, LAMBDA m : m.captured # "")
    IN  IF Len(capturing) > 0 THEN capturing ELSE ms

\* The call begins: no move available, the easy tier's pool, or the start of the medium
\* tier's loop or of the hard tier's iterative deepening.
GetBestMove ==
    /\ pc = "idle"
    /\ gameAtCall' = game
    /\ evals' = 0
    /\ cuts' = 0
    /\ late' = FALSE
    /\ selectedMove' = NullMove
    /\ bestMove' = NullMove
    /\ LET ms == moves(game)
       IN  IF noMoves(ms)
           THEN /\ result' = NullResult
                /\ pc' = "done"
                /\ UNCHANGED <<orderedMoves, depth, idx, bestScore, seed>>
           ELSE IF settings.difficulty = "easy"
           THEN /\ orderedMoves' = easyPool(ms)
                /\ pc' = "easy"
                /\ UNCHANGED <<result, depth, idx, bestScore, seed>>
           ELSE IF settings.difficulty = "medium"
           THEN /\ bestScore' = (IF game.turn = "w" THEN -Infinity ELSE Infinity)
                /\ orderedMoves' = sortCapturesFirst(ms)
                /\ idx' = 1
                /\ pc' = "medium"
                /\ seed' \in Seeds
                /\ UNCHANGED <<result, depth>>
           ELSE /\ bestScore' = (IF game.turn = "w" THEN -Infinity ELSE Infinity)
                /\ orderedMoves' = sortCapturesFirst(ms)
                /\ depth' = 1
                /\ idx' = 1
                /\ pc' = "root"
                /\ UNCHANGED <<result, seed>>
    /\ rootScores' = <<>>
    /\ wrong' = 0
    /\ UNCHANGED <<app, searchOut, objects, screen, game, settings, prev, evalOut>>

\* The easy tier draws a move of the pool and returns it.  Reading a field of pool[0]
\* (or, below, of moves[0]) when the list is empty throws a TypeError (pc = "threw").
EasyPick ==
    /\ pc = "easy"
    /\ IF Len(orderedMoves) > 0
       THEN /\ \E rnd \in RandomDraws : result' = AIMove(pick(orderedMoves, rnd))
            /\ pc' = "done"
       ELSE /\ result' = NullResult
            /\ pc' = "threw"
    /\ UNCHANGED <<wrong, app, searchOut, objects, screen, game, settings, orderedMoves, depth, idx, bestScore, bestMove,
                   selectedMove, late, evals, cuts, gameAtCall, prev, evalOut, seed, rootScores>>

\* One round of the medium tier's loop: the move is made on a copy and the copy evaluated.
MediumStep ==
    /\ pc = "medium"
    /\ idx <= Len(orderedMoves)
    /\ LET added == noiseAt(settings.difficulty, seed, idx)
       IN
         LET move  == orderedMoves[idx]
             ac    == applyOnCopy(game, move)
             score == evaluatePosition(ac.child, added)
             wins  == better(gameAtCall.turn = "w", score, bestScore)
         IN  /\ bestScore' = (IF wins THEN score ELSE bestScore)
             /\ bestMove' = (IF wins THEN move ELSE bestMove)
             /\ game' = ac.caller
             /\ rootScores' = Append(rootScores, score)
    /\ evals' = evals + 1
    /\ idx' = idx + 1
    /\ UNCHANGED <<wrong, app, searchOut, objects, screen, settings, pc, orderedMoves, depth, selectedMove, late, result, cuts,
                   gameAtCall, prev, evalOut, seed>>

\* The medium tier returns the best move, or moves[0] when there is none.
MediumReturn ==
    /\ pc = "medium"
    /\ idx > Len(orderedMoves)
    /\ IF bestMove # NullMove
       THEN result' = AIMove(bestMove) /\ pc' = "done"
       ELSE IF Len(moves(game)) > 0
            THEN result' = AIMove(moves(game)[1]) /\ pc' = "done"
            ELSE result' = NullResult /\ pc' = "threw"
    /\ UNCHANGED <<wrong, app, searchOut, objects, screen, game, settings, orderedMoves, depth, idx, bestScore, bestMove,
                   selectedMove, late, evals, cuts, gameAtCall, prev, evalOut, seed, rootScores>>

\* One round of the hard tier's loop over the root moves: the clock is read, and unless
\* the deadline has passed the move is made on a copy and the copy searched.
RootStep ==
    /\ pc = "root"
    /\ idx <= Len(orderedMoves)
    /\ \E lateNow \in {late, TRUE} :
         IF lateNow
         THEN /\ late' = TRUE
              /\ pc' = "depthEnd"
              /\ UNCHANGED <<game, idx, bestScore, bestMove, evals, cuts, rootScores, wrong>>
         ELSE \E budget \in Budgets, added \in noise(settings.difficulty) :
                LET move  == orderedMoves[idx]
                    ac    == applyOnCopy(game, move)
                    r     == minimax(ac.child, depth - 1, rootIsMaximizing(ac.child),
                                     -Infinity, Infinity, budget, added)
                    score == r.v
                    wins  == better(gameAtCall.turn = "w", score, bestScore)
                IN  /\ bestScore' = (IF wins THEN score ELSE bestScore)
                    /\ bestMove' = (IF wins THEN move ELSE bestMove)
                    /\ game' = ac.caller
                    /\ rootScores' = Append(rootScores, score)
                    /\ late' = pastDeadline(r.budget)
                    /\ evals' = evals + r.evals
                    /\ cuts' = cuts + r.cuts
                    /\ wrong' = wrong + r.wrong
                    /\ idx' = idx + 1
                    /\ pc' = "root"
    /\ UNCHANGED <<app, searchOut, objects, screen, settings, orderedMoves, depth, selectedMove, result, gameAtCall, prev,
                   evalOut, seed>>

\* The loop over the root moves has gone through all of them.
RootLoopEnd ==
    /\ pc = "root"
    /\ idx > Len(orderedMoves)
    /\ pc' = "depthEnd"
    /\ UNCHANGED <<wrong, app, searchOut, objects, screen, game, settings, orderedMoves, depth, idx, bestScore, bestMove,
                   selectedMove, late, result, evals, cuts, gameAtCall, prev, evalOut,
                   seed, rootScores>>

\* A faulty selection that keeps the move selected at an earlier depth, if any.
selectEarliestDepth(bestMoveAtDepth, selected) ==
    IF selected # NullMove THEN selected ELSE bestMoveAtDepth

\* if (bestMoveAtDepth) selectedMove = bestMoveAtDepth
select(bestMoveAtDepth, selected) ==
    IF bestMoveAtDepth # NullMove THEN bestMoveAtDepth ELSE selected

\* A faulty step of the deepening loop that stays at the same depth.
sameDepth(d) == d

\* depth++ of the deepening loop
nextDepth(d) == d + 1

\* After the loop over the root moves: the depth's best move, if any, is selected; the
\* clock is read, and the search goes one ply deeper or returns.
DepthEnd ==
    /\ pc = "depthEnd"
    /\ LET selected == select(bestMove, selectedMove)
       IN  /\ selectedMove' = selected
           /\ \E lateNow \in {late, TRUE} :
                /\ late' = lateNow
                /\ IF ~lateNow /\ nextDepth(depth) <= settings.depth
                   THEN /\ depth' = nextDepth(depth)
                        /\ idx' = 1
                        /\ bestScore' = (IF gameAtCall.turn = "w" THEN -Infinity ELSE Infinity)
                        /\ bestMove' = NullMove
                        /\ rootScores' = <<>>
                        /\ pc' = "root"
                        /\ UNCHANGED result
                   ELSE /\ result' = (IF selected # NullMove THEN AIMove(selected)
                                      ELSE NullResult)
                        /\ pc' = "done"
                        /\ UNCHANGED <<depth, idx, bestScore, bestMove, rootScores>>
    /\ UNCHANGED <<wrong, app, searchOut, objects, screen, game, settings, orderedMoves, evals, cuts, gameAtCall, prev,
                   evalOut, seed>>

\* The caller takes the result; the position and the settings stay for the next call.
Return ==
    /\ pc = "done"
    /\ pc' = "idle"
    /\ prev' = (IF settings.difficulty = "hard" /\ ~late
                 THEN [called |-> TRUE, result |-> result] ELSE prev)
    /\ orderedMoves' = <<>>
    /\ depth' = 0
    /\ idx' = 0
    /\ bestScore' = 0
    /\ bestMove' = NullMove
    /\ selectedMove' = NullMove
    /\ late' = FALSE
    /\ result' = NullResult
    /\ evals' = 0
    /\ cuts' = 0
    /\ rootScores' = <<>>
    /\ seed' = 0
    /\ UNCHANGED <<wrong, app, searchOut, objects, screen, game, settings, gameAtCall, evalOut>>

\* evaluatePosition applied directly to the position and to its colour mirror, in any
\* difficulty tier and with any value of Math.random().
Evaluate ==
    /\ pc = "idle"
    /\ \E df \in Difficulties : \E added \in noise(df) :
         evalOut' = [difficulty |-> df,
                     score      |-> evaluatePosition(game, added),
                     mirrored   |-> evaluatePosition(ColorMirror(game), added)]
    /\ pc' = "evaluated"
    /\ UNCHANGED <<wrong, app, searchOut, objects, screen, game, settings, orderedMoves, depth, idx, bestScore, bestMove,
                   selectedMove, late, result, evals, cuts, gameAtCall, prev, seed, rootScores>>

EvaluateReturn ==
    /\ pc = "evaluated"
    /\ pc' = "idle"
    /\ evalOut' = NoEval
    /\ UNCHANGED <<wrong, app, searchOut, objects, screen, game, settings, orderedMoves, depth, idx, bestScore, bestMove,
                   selectedMove, late, result, evals, cuts, gameAtCall, prev, seed, rootScores>>

\* minimax applied directly to the position, as the root loop of the hard tier applies it
\* to the position after a root move: with any depth below the configured one, the side to
\* move maximizing when it is White, the full window, and any state of the clock.
Search ==
    /\ pc = "idle"
    /\ settings.difficulty = "hard"
    /\ \E d \in 0..(settings.depth - 1), budget \in Budgets :
         LET r == minimax(game, d, rootIsMaximizing(game), -Infinity, Infinity, budget, 0)
         IN  searchOut' = [depth |-> d, budget |-> budget, v |-> r.v, evals |-> r.evals,
                           nodes |-> r.nodes, wrong |-> r.wrong]
    /\ pc' = "searched"
    /\ UNCHANGED <<wrong, app, objects, screen, game, settings, orderedMoves, depth, idx, bestScore,
                   bestMove, selectedMove, late, result, evals, cuts, gameAtCall, prev,
                   evalOut, seed, rootScores>>

SearchReturn ==
    /\ pc = "searched"
    /\ pc' = "idle"
    /\ searchOut' = NoSearch
    /\ UNCHANGED <<wrong, app, objects, screen, game, settings, orderedMoves, depth, idx, bestScore,
                   bestMove, selectedMove, late, result, evals, cuts, gameAtCall, prev,
                   evalOut, seed, rootScores>>

(***************************************************************************)
(* The settings objects: constructor, updateSettings, getSettings          *)
(***************************************************************************)

\* What the steps on the settings objects leave alone.
callVars == <<wrong, app, searchOut, game, orderedMoves, depth, idx, bestScore, bestMove, selectedMove, late,
              result, evals, cuts, gameAtCall, evalOut, screen, seed, rootScores>>

\* The arguments of updateSettings: any part of the fields of AISettings.
Updates ==
    {NoUpdate}
    \cup {[depth |-> d] : d \in 1..MaxDepth}
    \cup {[difficulty |-> df, timeLimitMs |-> timeLimitMap[df]] : df \in Difficulties}
    \cup Settings

\* { ...this.settings, ...newSettings }
spread(old, new) ==
    [f \in DOMAIN old \cup DOMAIN new |-> IF f \in DOMAIN new THEN new[f] ELSE old[f]]

\* new ChessAI(object): a ChessAI is made with an object the caller keeps, and
\* this.settings = settings makes this.settings that very object.
Construct ==
    /\ pc \in {"updated", "mutatedGiven", "gotSettings", "mutatedGot"}
    /\ \E object \in {objects.given, objects.got} \cap Settings :
         /\ settings' = object
         /\ objects' = [given |-> object, aliased |-> TRUE,
                        got |-> NoSettings, update |-> NoUpdate]
    /\ prev' = NoPrev
    /\ pc' = "idle"
    /\ UNCHANGED callVars

\* The caller writes fields of the object it gave to the constructor.
MutateGiven ==
    /\ pc \in {"idle", "updated"}
    /\ \E written \in Settings \ {objects.given} :
         /\ objects' = [objects EXCEPT !.given = written]
         /\ settings' = (IF objects.aliased THEN written ELSE settings)
    /\ prev' = NoPrev
    /\ pc' = (IF pc = "idle" THEN "idle" ELSE "mutatedGiven")
    /\ UNCHANGED callVars

\* updateSettings(newSettings)
UpdateSettings ==
    /\ pc = "idle"
    /\ \E newSettings \in Updates :
         /\ settings' = spread(settings, newSettings)
         /\ objects' = [objects EXCEPT !.aliased = FALSE, !.update = newSettings]
    /\ prev' = NoPrev
    /\ pc' = "updated"
    /\ UNCHANGED callVars

\* getSettings(): the caller receives a copy of this.settings.
GetSettings ==
    /\ pc = "updated"
    /\ objects' = [objects EXCEPT !.got = spread(settings, NoUpdate)]
    /\ pc' = "gotSettings"
    /\ UNCHANGED <<settings, prev, callVars>>

\* The caller writes fields of the object getSettings returned.
MutateGot ==
    /\ pc = "gotSettings"
    /\ \E written \in Settings \ {objects.got} :
         objects' = [objects EXCEPT !.got = written]
    /\ pc' = "mutatedGot"
    /\ UNCHANGED <<settings, prev, callVars>>

(***************************************************************************)
(* ChessScreen: the AI's turn, played by the external engine or the watchdog *)
(***************************************************************************)

\* What the screen's steps leave alone: the ChessAI object and its calls.
aiVars == <<wrong, app, searchOut, objects, game, settings, orderedMoves, depth, idx, bestScore, bestMove, selectedMove,
            late, result, evals, cuts, gameAtCall, prev, evalOut, seed, rootScores>>

\* next.move({ from, to, promotion: promotion || "q" }): the legal move of g with this
\* origin and target, and with this promotion when it is a promotion; none otherwise.
moveByCoordinates(g, from, to, promotion) ==
    LET ms    == IF from \in DOMAIN g.board /\ g.board[from].color = g.turn
                 THEN SelectSeq(MovesFrom(g, from), LAMBDA m : Legal(g, m))
                 ELSE <<>>
        promo == IF promotion = "" THEN "q" ELSE promotion
        found == SelectSeq(ms, LAMBDA m : m.from = from /\ m.to = to
                                         /\ (m.promotion = "" \/ m.promotion = promo))
    IN  IF Len(found) > 0 THEN found[1] ELSE NullMove

\* captures[0] || legal[0]
quickPick(legal) ==
    LET captures == SelectSeq(legal, LAMBDA m : m.captured # "")
    IN  IF Len(captures) > 0 THEN captures[1] ELSE legal[1]

\* The effect that hands the turn to the AI when Black is to move.
AITurnEffect ==
    /\ pc = "idle"
    /\ screen.game.turn = "b" /\ ~screen.isAITurn /\ ~isGameOver(screen.game)
    /\ screen' = [screen EXCEPT !.isAITurn = TRUE]
    /\ pc' = "aiTurn"
    /\ UNCHANGED aiVars

\* makeAIMove: the position is sent to the engine and the watchdog is armed.
MakeAIMove ==
    /\ pc = "aiTurn"
    /\ screen.isAITurn /\ ~isGameOver(screen.game) /\ ~screen.awaiting
    /\ screen' = [screen EXCEPT !.awaiting = TRUE, !.fenNow = screen.game,
                                !.watchdog = TRUE]
    /\ pc' = "awaiting"
    /\ UNCHANGED aiVars

\* The watchdog fires: no bestmove has come in time, and a quick move is played on the
\* position that was sent.
Watchdog ==
    /\ pc = "awaiting"
    /\ screen.watchdog
    /\ LET legal == moves(NewChessFromFen(screen.fenNow))
       IN  IF ~screen.awaiting
           THEN screen' = [screen EXCEPT !.watchdog = FALSE]
           ELSE IF Len(legal) > 0
           THEN LET picked == quickPick(legal)
                    next   == NewChessFromFen(screen.fenNow)
                    res    == moveByCoordinates(next, picked.from, picked.to,
                                                picked.promotion)
                IN  IF res # NullMove
                    THEN screen' = [screen EXCEPT !.game = MakeMove(next, res),
                                                !.isAITurn = FALSE, !.awaiting = FALSE,
                                                !.watchdog = FALSE, !.played = AIMove(res),
                                                !.source = "fallback"]
                    ELSE screen' = [screen EXCEPT !.awaiting = FALSE, !.watchdog = FALSE]
           ELSE screen' = [screen EXCEPT !.awaiting = FALSE, !.watchdog = FALSE]
    /\ pc' = "played"
    /\ UNCHANGED aiVars

\* onMessage with a bestmove line: the engine's move, a legal move of the position sent,
\* is played on the screen's position and the watchdog is cleared.
BestMove ==
    /\ pc = "awaiting"
    /\ \E i \in 1..Len(moves(screen.fenNow)) :
         LET sent == moves(screen.fenNow)[i]
             next == NewChessFromFen(screen.game)
             res  == moveByCoordinates(next, sent.from, sent.to, sent.promotion)
         IN  IF res # NullMove
             THEN screen' = [screen EXCEPT !.game = MakeMove(next, res),
                                         !.isAITurn = FALSE, !.awaiting = FALSE,
                                         !.watchdog = FALSE, !.played = AIMove(res),
                                         !.source = "engine"]
             ELSE screen' = [screen EXCEPT !.awaiting = FALSE, !.watchdog = FALSE]
    /\ pc' = "played"
    /\ UNCHANGED aiVars

Next ==
    \/ GetBestMove
    \/ EasyPick
    \/ MediumStep
    \/ MediumReturn
    \/ RootStep
    \/ RootLoopEnd
    \/ DepthEnd
    \/ Return
    \/ Evaluate
    \/ EvaluateReturn
    \/ Search
    \/ SearchReturn
    \/ Construct
    \/ MutateGiven
    \/ UpdateSettings
    \/ GetSettings
    \/ MutateGot
    \/ AITurnEffect
    \/ MakeAIMove
    \/ Watchdog
    \/ BestMove

Spec == Init /\ [][Next]_vars

(***************************************************************************)
(* ChessScreen and ChessBoard in human-vs-ai mode: the interleavings of    *)
(* the user's taps and resets, the timers, the engine's messages and the   *)
(* continuations of the handlers that await a sound.                       *)
(*                                                                         *)
(* A handler runs from its beginning to its first await, or to its end, as *)
(* one step, together with the render that follows it; what comes after    *)
(* the await is a step of its own.  Handlers read the state of the latest  *)
(* render; the watchdog's callback reads the fenNow of the makeAIMove call  *)
(* that armed it.  The kings have not castled in the positions below, and  *)
(* the user's moves are too few to make castling possible.                 *)
(***************************************************************************)

\* The largest number of moves the user makes, and of resets the user asks for.
MaxHumanMoves == 2

MaxResets == 1

\* new Chess(): the initial position.
InitialPosition ==
    LET back == <<"r", "n", "b", "q", "k", "b", "n", "r">>
    IN  Position(Board({<<At(f, 1), "w", back[f + 1]>> : f \in 0..7}
                       \cup {<<At(f, 2), "w", "p">> : f \in 0..7}
                       \cup {<<At(f, 7), "b", "p">> : f \in 0..7}
                       \cup {<<At(f, 8), "b", back[f + 1]>> : f \in 0..7}),
                 "w", NoSquare, 0, 1)

\* The position the screen shows when the user comes to it, late in a game: a White rook
\* on h8 and the kings on e5 and a2, White to move.  The initial position comes with a
\* reset.
RookEnding ==
    Board({<<At(0, 2), "b", "k">>, <<At(4, 5), "w", "k">>, <<At(7, 8), "w", "r">>})

ScreenPositions ==
    {Position(RookEnding, "w", NoSquare, 0, 1)}

\* The squares the user taps: squares of the h-file, from which and to which the rook
\* moves, and on which a Black pawn stands and moves in the initial position.
TapSquares == {At(7, r) : r \in {5, 7, 8}}

\* What the engine may answer to a search of the position sent: a legal move of that
\* position (the first of them), "bestmove (none)", whose coordinates are no squares, or
\* a line with no move of four characters.
EngineReplies(fen) ==
    LET ms == moves(fen)
    IN  {[kind |-> "move", from |-> ms[i].from, to |-> ms[i].to,
          promotion |-> ms[i].promotion] : i \in {1} \cap (1..Len(ms))}
        \cup {[kind |-> "none", from |-> NoSquare, to |-> NoSquare, promotion |-> ""],
              [kind |-> "short", from |-> NoSquare, to |-> NoSquare, promotion |-> ""]}

\* What a step of the screen leaves alone: ChessAI and the steps made on it.
quietVars == <<game, settings, pc, orderedMoves, depth, idx, bestScore, bestMove,
               selectedMove, late, result, evals, cuts, gameAtCall, prev, evalOut,
               searchOut, objects, screen, seed, rootScores, wrong>>

ScreenInit ==
    /\ game = InitialPosition
    /\ settings = [depth |-> depthMap["medium"], difficulty |-> "medium",
                   timeLimitMs |-> timeLimitMap["medium"]]
    /\ pc = "idle"
    /\ orderedMoves = <<>>
    /\ depth = 0
    /\ idx = 0
    /\ bestScore = 0
    /\ bestMove = NullMove
    /\ selectedMove = NullMove
    /\ late = FALSE
    /\ result = NullResult
    /\ evals = 0
    /\ cuts = 0
    /\ gameAtCall = game
    /\ prev = NoPrev
    /\ evalOut = NoEval
    /\ searchOut = NoSearch
    /\ objects = [given |-> settings, aliased |-> TRUE, got |-> NoSettings,
                  update |-> NoUpdate]
    /\ screen = [game |-> game, isAITurn |-> FALSE, awaiting |-> FALSE, fenNow |-> game,
                 watchdog |-> FALSE, played |-> NullResult, source |-> ""]
    /\ seed = 0
    /\ rootScores = <<>>
    /\ wrong = 0
    /\ \E g \in ScreenPositions :
         app = [mounted        |-> TRUE,
                game           |-> g,        \* useState: game
                isAITurn       |-> FALSE,    \* useState: isAITurn
                awaiting       |-> FALSE,    \* awaitingBestMoveRef.current
                aiTimer        |-> FALSE,    \* the 50 ms timer of the effect is pending
                timers         |-> {},       \* the pending watchdogs: [id, fenNow, and
                                             \* whether the bestmove of the search they
                                             \* were armed for has been played]
                handle         |-> 0,        \* _sfTimeout: the watchdog armed last
                searches       |-> {},       \* the 'go' commands not answered: [id, fen]
                bmResume       |-> 0,        \* bestmove handlers awaiting their sound
                wdResume       |-> 0,        \* watchdog callbacks awaiting their sound
                tapResume      |-> 0,        \* tryUserMove calls awaiting their sound
                selectedSquare |-> NoSquare, \* ChessBoard: selectedSquare (null)
                legalTargets   |-> {},       \* ChessBoard: legalTargets
                humanMoves     |-> 0,        \* the moves the user has made
                resets         |-> 0,        \* the resets the user has asked for
                sinceReset     |-> FALSE,    \* reset, and no move of the user since
                didMove        |-> ""]       \* what onMove returned, if the last step
                                             \* called it: "true", "false" or "threw"

\* The render after a handler, with the effect that arms the 50 ms timer: when game or
\* isAITurn has been set anew, the timer of the earlier render is cleared, and a new one
\* is armed if it is the AI's turn and the game is not over.
afterRender(a, changed) ==
    [a EXCEPT !.aiTimer = IF changed THEN (a.isAITurn /\ ~isGameOver(a.game)) ELSE @]

\* A number for a new search and its watchdog: the least one that no pending watchdog
\* and no search not yet answered has.
newId(a) ==
    LET used == {t.id : t \in a.timers} \cup {s.id : s \in a.searches}
    IN  CHOOSE n \in 1..(Cardinality(used) + 1) :
          n \notin used /\ \A k \in 1..(n - 1) : k \in used

\* clearTimeout(anyRef._sfTimeout)
clearWatchdog(a) == [a EXCEPT !.timers = {t \in @ : t.id # a.handle}]

\* ChessBoard.computeLegalTargets with playerColor "w"
computeLegalTargets(g, square, isPlayerTurn) ==
    IF square \notin DOMAIN g.board THEN {}
    ELSE IF g.board[square].color # g.turn THEN {}
    ELSE IF ~isPlayerTurn THEN {}
    ELSE IF g.board[square].color # "w" THEN {}
    ELSE LET ms == SelectSeq(MovesFrom(g, square), LAMBDA m : Legal(g, m))
         IN  {ms[i].to : i \in 1..Len(ms)}

\* onMove(from, to): what it returns ("true", "false", or "threw" when next.move throws)
\* and the state it leaves.  A move that is not legal makes next.move return null or
\* throw, as the version of chess.js has it (throws).
onMove(a, from, to, throws) ==
    IF a.isAITurn THEN [out |-> "false", app |-> a]
    ELSE LET next == NewChessFromFen(a.game)
             res  == moveByCoordinates(next, from, to, "q")
         IN  IF res # NullMove
             THEN LET moved == MakeMove(next, res)
                  IN  [out |-> "true",
                       app |-> [a EXCEPT !.game = moved,
                                         !.isAITurn = IF moved.turn = "b" /\ ~isGameOver(moved)
                                                      THEN TRUE ELSE @]]
             ELSE [out |-> IF throws THEN "threw" ELSE "false", app |-> a]

\* The selection handleTap makes on a square that is no target: the square and its
\* targets when it has any, none otherwise.
selectOrClear(a, sq) ==
    LET targets == computeLegalTargets(a.game, sq, ~a.isAITurn)
    IN  IF targets # {}
        THEN [a EXCEPT !.selectedSquare = sq, !.legalTargets = targets]
        ELSE [a EXCEPT !.selectedSquare = NoSquare, !.legalTargets = {}]

\* ChessBoard.handleTap, with tryUserMove and onMove, up to the await of the sound.
HandleTap ==
    /\ app.mounted
    /\ \E sq \in TapSquares :
         LET a == [app EXCEPT !.didMove = ""]
         IN  IF a.selectedSquare = NoSquare
             THEN app' = selectOrClear(a, sq)
             ELSE IF sq = a.selectedSquare
             THEN app' = [a EXCEPT !.selectedSquare = NoSquare, !.legalTargets = {}]
             ELSE IF sq \in a.legalTargets
             THEN \E throws \in BOOLEAN :
                    LET r == onMove(a, a.selectedSquare, sq, throws)
                    IN  /\ r.out = "true" => a.humanMoves < MaxHumanMoves
                        /\ app' =
                             IF r.out = "true"
                             THEN afterRender([r.app EXCEPT !.tapResume = @ + 1,
                                                            !.humanMoves = @ + 1,
                                                            !.sinceReset = FALSE,
                                                            !.didMove = "true"], TRUE)
                             ELSE IF r.out = "false"
                             THEN [a EXCEPT !.selectedSquare = NoSquare,
                                            !.legalTargets = {}, !.didMove = "false"]
                             ELSE [a EXCEPT !.didMove = "threw"]
             ELSE app' = selectOrClear(a, sq)
    /\ UNCHANGED quietVars

\* tryUserMove after the sound: the selection is cleared.
TapResume ==
    /\ app.mounted
    /\ app.tapResume > 0
    /\ app' = [app EXCEPT !.tapResume = @ - 1, !.selectedSquare = NoSquare,
                          !.legalTargets = {}, !.didMove = ""]
    /\ UNCHANGED quietVars

\* The effect that hands the turn to the AI when Black is to move and isAITurn is false.
TurnEffect ==
    /\ app.mounted
    /\ app.game.turn = "b" /\ ~app.isAITurn /\ ~isGameOver(app.game)
    /\ app' = afterRender([app EXCEPT !.isAITurn = TRUE, !.didMove = ""], TRUE)
    /\ UNCHANGED quietVars

\* The 50 ms timer fires and calls makeAIMove: unless a bestmove is awaited, the position
\* is sent to the engine (injectJavaScript, which may throw) and the watchdog is armed
\* in place of the one armed last.
AITimerFires ==
    /\ app.mounted
    /\ app.aiTimer
    /\ \E injected \in BOOLEAN :
         LET a == [app EXCEPT !.aiTimer = FALSE, !.didMove = ""]
         IN  IF ~a.isAITurn \/ isGameOver(a.game) \/ a.awaiting
             THEN app' = a
             ELSE IF injected
             THEN LET c  == clearWatchdog(a)
                      id == newId(c)
                  IN  app' = [c EXCEPT
                                !.awaiting = TRUE,
                                !.searches = @ \cup {[id |-> id, fen |-> a.game]},
                                !.timers = @ \cup {[id |-> id, fenNow |-> a.game,
                                                     applied |-> FALSE]},
                                !.handle = id]
             ELSE app' = afterRender([a EXCEPT !.awaiting = FALSE, !.isAITurn = FALSE],
                                     TRUE)
    /\ UNCHANGED quietVars

\* A watchdog fires: if a bestmove is still awaited, a quick move is played on the
\* position that was sent, and the callback awaits the sound.
WatchdogFires ==
    /\ app.mounted
    /\ \E t \in app.timers :
         LET a     == [app EXCEPT !.timers = @ \ {t}, !.didMove = ""]
             quick == NewChessFromFen(t.fenNow)
             legal == moves(quick)
         IN  IF ~a.awaiting
             THEN app' = a
             ELSE IF Len(legal) > 0
             THEN LET picked == quickPick(legal)
                      res    == moveByCoordinates(quick, picked.from, picked.to,
                                                  picked.promotion)
                  IN  app' = afterRender([a EXCEPT
                                 !.game = MakeMove(quick, res),
                                 !.isAITurn = FALSE,
                                 !.wdResume = @ + 1], TRUE)
             ELSE app' = [a EXCEPT !.awaiting = FALSE]
    /\ UNCHANGED quietVars

\* The watchdog's callback after the sound
WatchdogResume ==
    /\ app.mounted
    /\ app.wdResume > 0
    /\ app' = [app EXCEPT !.wdResume = @ - 1, !.awaiting = FALSE, !.didMove = ""]
    /\ UNCHANGED quietVars

\* onMessage with a bestmove line, the answer to one of the searches: the move is tried
\* on the game of the latest render; when it is played the handler awaits the sound, and
\* otherwise it clears the awaiting flag and the watchdog, unless next.move threw.
OnBestMove ==
    /\ app.mounted
    /\ \E s \in app.searches : \E reply \in EngineReplies(s.fen), throws \in BOOLEAN :
         LET a    == [app EXCEPT !.searches = @ \ {s}, !.didMove = ""]
             next == NewChessFromFen(a.game)
             res  == IF reply.kind = "short" THEN NullMove
                     ELSE moveByCoordinates(next, reply.from, reply.to, reply.promotion)
         IN  IF res # NullMove
             THEN app' = afterRender([a EXCEPT
                            !.game = MakeMove(next, res),
                            !.isAITurn = FALSE,
                            !.bmResume = @ + 1,
                            !.timers = {IF t.id = s.id THEN [t EXCEPT !.applied = TRUE]
                                        ELSE t : t \in @}], TRUE)
             ELSE IF reply.kind # "short" /\ throws
             THEN app' = a
             ELSE app' = [clearWatchdog(a) EXCEPT !.awaiting = FALSE]
    /\ UNCHANGED quietVars

\* The bestmove handler after the sound
BestMoveResume ==
    /\ app.mounted
    /\ app.bmResume > 0
    /\ app' = [clearWatchdog(app) EXCEPT !.bmResume = @ - 1, !.awaiting = FALSE,
                                         !.didMove = ""]
    /\ UNCHANGED quietVars

\* resetGame
ResetGame ==
    /\ app.mounted
    /\ app.resets < MaxResets
    /\ app' = afterRender([app EXCEPT !.game = InitialPosition,
                                      !.isAITurn = FALSE,
                                      !.resets = @ + 1,
                                      !.sinceReset = TRUE,
                                      !.didMove = ""], TRUE)
    /\ UNCHANGED quietVars

ScreenNext ==
    \/ HandleTap
    \/ TapResume
    \/ TurnEffect
    \/ AITimerFires
    \/ WatchdogFires
    \/ WatchdogResume
    \/ OnBestMove
    \/ BestMoveResume
    \/ ResetGame

ScreenSpec == ScreenInit /\ [][ScreenNext]_vars

(***************************************************************************)
(* Reference definitions used by the properties                            *)
(***************************************************************************)

LegalMoves(g) == LET ms == moves(g) IN {ms[i] : i \in 1..Len(ms)}

SetMax(S) == CHOOSE x \in S : \A y \in S : x >= y

SetMin(S) == CHOOSE x \in S : \A y \in S : x <= y

RECURSIVE FullMinimax(_, _)
\* Minimax over the whole tree below g, to the given depth, with no pruning and no clock:
\* the side to move maximizes when it is White and minimizes when it is Black.
FullMinimax(g, d) ==
    IF d = 0 \/ isGameOver(g) THEN evaluatePosition(g, 0)
    ELSE LET vals == {FullMinimax(MakeMove(g, m), d - 1) : m \in LegalMoves(g)}
         IN  IF g.turn = "w" THEN SetMax(vals) ELSE SetMin(vals)

\* The first move, in capture-first order, whose full minimax score is the best for the
\* side to move.
FullChoice(g, d) ==
    LET ms     == sortCapturesFirst(moves(g))
        val(i) == FullMinimax(MakeMove(g, ms[i]), d - 1)
        vals   == {val(i) : i \in 1..Len(ms)}
        best   == IF g.turn = "w" THEN SetMax(vals) ELSE SetMin(vals)
        first  == CHOOSE i \in 1..Len(ms) :
                    val(i) = best /\ \A j \in 1..(i - 1) : val(j) # best
    IN  AIMove(ms[first])

\* Some legal move of g checkmates at once.
HasMateInOne(g) == \E m \in LegalMoves(g) : isCheckmate(MakeMove(g, m))

\* The result r is a legal move of g that checkmates at once.
MatesAtOnce(g, r) == \E m \in LegalMoves(g) : AIMove(m) = r /\ isCheckmate(MakeMove(g, m))

Hard == settings.difficulty = "hard"

\* A direct minimax call on g with the given depth and clock budget, seen from the loop
\* over the children of g: the ordered children (ms), the number of them whose call
\* began before the deadline passed (k), and the value accumulated over those (v).
ExploredInTime(g, d, budget) ==
    LET ms      == sortCapturesFirst(moves(g))
        isMax   == g.turn = "w"
        loop(j) == minimaxLoop(g, SubSeq(ms, 1, j), 1, d, isMax,
                               IF isMax THEN -Infinity ELSE Infinity,
                               -Infinity, Infinity, afterRead(budget), 0, 0, 1, 0, 0)
        k       == Cardinality({j \in 1..Len(ms) : loop(j - 1).budget # 0})
    IN  [ms |-> ms, k |-> k, v |-> loop(k).v]

\* The deadline passes while the direct minimax call on game is in the loop over the
\* children: the call itself began in time, and some child's call did not.
DeadlineInLoop ==
    /\ pc = "searched"
    /\ searchOut.depth >= 1
    /\ ~isGameOver(game)
    /\ searchOut.budget \notin {0, NoDeadline}
    /\ LET e == ExploredInTime(game, searchOut.depth, searchOut.budget)
       IN  e.k < Len(e.ms)

\* The sequence ordered holds the moves of the sequence ms (no two of them equal), the
\* captures before the others, and each of the two groups in the order it has in ms.
CapturesFirstStable(ordered, ms) ==
    LET at(m) == CHOOSE i \in 1..Len(ms) : ms[i] = m
    IN  /\ Len(ordered) = Len(ms)
        /\ {ordered[i] : i \in 1..Len(ordered)} = {ms[i] : i \in 1..Len(ms)}
        /\ \A i, j \in 1..Len(ordered) :
              i < j => /\ (ordered[i].captured # "" \/ ordered[j].captured = "")
                       /\ ((ordered[i].captured # "") = (ordered[j].captured # ""))
                             => at(ordered[i]) < at(ordered[j])

RECURSIVE OrientedScore(_, _)
\* Material plus table entry over the occupied squares sqs of the board b, added for
\* White and subtracted for Black, the table read at the rank index of the board grid
\* for a White piece and at 7 minus the rank index for a Black piece.
OrientedScore(b, sqs) ==
    IF sqs = {} THEN 0
    ELSE LET s     == CHOOSE x \in sqs : TRUE
             piece == b[s]
             row   == IF piece.color = "w" THEN Rank(s) ELSE 7 - Rank(s)
             total == PIECE_VALUES[piece.type]
                      + getPositionTable(piece.type)[row + 1][File(s) + 1]
         IN  (IF piece.color = "w" THEN total ELSE -total) + OrientedScore(b, sqs \ {s})

\* The position in a sequence of scores of the first score that is the best for the
\* side to move: the largest for White, the smallest for Black.
FirstBest(scores, isWhite) ==
    LET vals == {scores[i] : i \in 1..Len(scores)}
        best == IF isWhite THEN SetMax(vals) ELSE SetMin(vals)
    IN  CHOOSE i \in 1..Len(scores) : scores[i] = best /\ \A j \in 1..(i - 1) : scores[j] # best

(***************************************************************************)
(* Properties                                                              *)
(***************************************************************************)

\* C1: whenever the position has a legal move, getBestMove returns, in every tier, with
\* every depth and whatever the clock does, the (from, to, promotion) of a legal move.
C1_ReturnsLegalMove ==
    (pc = "done" /\ HasMoves(gameAtCall))
        => result \in {AIMove(m) : m \in LegalMoves(gameAtCall)}

\* C2: on a position with no legal move the call has returned null at once, in every
\* tier, with no position evaluated and no error thrown.
C2_NoMovesReturnsNull ==
    (pc \in {"easy", "medium", "root", "depthEnd", "done", "threw"} /\ ~HasMoves(gameAtCall))
        => pc = "done" /\ result = NullResult /\ evals = 0

C2_Witness ==
    /\ pc = "done"
    /\ settings.difficulty = "medium"
    /\ isCheckmate(gameAtCall)
    /\ result = NullResult

\* C3 as stated: a hard-tier call returns the move an earlier hard-tier call on the same
\* position with the same settings returned.
C3_SameMoveEveryRun ==
    (pc = "done" /\ Hard /\ prev.called) => result = prev.result

\* C3 as amended: a hard-tier call during which the deadline does not pass returns the
\* move returned by an earlier such call on the same position with the same settings.
C3_SameMoveWithoutTimeout ==
    (pc = "done" /\ Hard /\ prev.called /\ ~late) => result = prev.result

C3_Witness ==
    /\ pc = "done"
    /\ Hard
    /\ settings.depth >= 2
    /\ prev.called
    /\ ~late
    /\ result # NullResult
    /\ result = prev.result

\* C4: when the deadline does not pass, the hard tier returns the move an unpruned
\* minimax over the same tree chooses with the same ordering and tie-break.
C4_AlphaBetaEquivalence ==
    (pc = "done" /\ Hard /\ ~late /\ HasMoves(gameAtCall))
        => result = FullChoice(gameAtCall, settings.depth)

C4_Witness ==
    /\ pc = "done"
    /\ Hard
    /\ ~late
    /\ cuts > 0
    /\ result = FullChoice(gameAtCall, settings.depth)

\* C5: the noise-free evaluation of the colour-mirrored position is the negation of the
\* evaluation of the position, checkmates and draws included.
C5_EvaluatorSymmetry ==
    (pc = "evaluated" /\ evalOut.difficulty = "hard")
        => evalOut.mirrored = -evalOut.score

C5_Witness ==
    /\ pc = "evaluated"
    /\ evalOut.difficulty = "hard"
    /\ ~isGameOver(game)
    /\ evalOut.score # 0
    /\ evalOut.mirrored = -evalOut.score

\* C6: a checkmate evaluates to exactly +1000 with Black to move and to exactly -1000
\* with White to move, in every tier and whatever Math.random() returns.
C6_CheckmateScore ==
    (pc = "evaluated" /\ isCheckmate(game))
        => evalOut.score = (IF game.turn = "b" THEN 10000 ELSE -10000)

C6_Witness ==
    /\ pc = "evaluated"
    /\ evalOut.difficulty = "easy"
    /\ isCheckmate(game)
    /\ game.turn = "w"
    /\ evalOut.score = -10000

\* C7 as stated: every position the rules engine reports as a draw evaluates to 0.
C7_DrawScoresZero ==
    (pc = "evaluated" /\ isDraw(game)) => evalOut.score = 0

\* C7 as amended: every position the rules engine reports as a draw and not as a
\* checkmate evaluates to 0, in every tier and whatever the material.
C7_DrawNotMateScoresZero ==
    (pc = "evaluated" /\ isDraw(game) /\ ~isCheckmate(game)) => evalOut.score = 0

C7_Witness ==
    /\ pc = "evaluated"
    /\ evalOut.difficulty = "easy"
    /\ isStalemate(game)
    /\ boardScore(game.board, DOMAIN game.board) # 0
    /\ evalOut.score = 0

\* C8: with White to move and a mate in one on the board, the medium tier and the hard
\* tier (any depth) return a move that checkmates at once.
C8_MateInOneFound ==
    (/\ pc = "done"
     /\ settings.difficulty \in {"medium", "hard"}
     /\ gameAtCall.turn = "w"
     /\ HasMateInOne(gameAtCall))
        => MatesAtOnce(gameAtCall, result)

\* C9: in the easy tier the result is a capture whenever a capture is legal, and every
\* capture (every legal move, when no capture is legal) is a possible result.
C9_EasyPrefersCaptures ==
    LET ms       == moves(gameAtCall)
        captures == {m \in LegalMoves(gameAtCall) : m.captured # ""}
        pool     == IF captures # {} THEN captures ELSE LegalMoves(gameAtCall)
    IN  /\ (pc = "done" /\ settings.difficulty = "easy" /\ Len(ms) > 0)
            => result \in {AIMove(m) : m \in pool}
        /\ pc = "easy" => \A m \in pool : ENABLED (EasyPick /\ result' = AIMove(m))

C9_Witness ==
    /\ pc = "done"
    /\ settings.difficulty = "easy"
    /\ \E m \in LegalMoves(gameAtCall) : m.captured # "" /\ AIMove(m) = result
    /\ \E m \in LegalMoves(gameAtCall) : m.captured = ""

\* C10: the position handed to getBestMove is never changed, during the call and after
\* it, in every tier and whether or not the deadline passed.
C10_PositionNotMutated == game = gameAtCall

C10_Witness ==
    /\ pc = "done"
    /\ Hard
    /\ late
    /\ evals > 1
    /\ result # NullResult
    /\ game = gameAtCall

\* C11 as stated: when the deadline passed during the running depth iteration, the hard
\* tier returns the move selected by the deepest iteration that was completed before.
C11_KeepsBestComplete ==
    [][(DepthEnd /\ late /\ selectedMove # NullMove /\ pc' = "done")
          => result' = AIMove(selectedMove)]_vars

\* C11 as amended: when the deadline passed during the hard-tier search, the move
\* returned is the first best-scored of the root moves scored in the iteration that was
\* running, if that iteration scored any root move; otherwise it is the choice of the
\* deepest completed iteration, and null when there is none.
C11_KeepsBestScored ==
    (pc = "done" /\ Hard /\ late /\ HasMoves(gameAtCall))
        => IF rootScores # <<>>
           THEN result = AIMove(orderedMoves[FirstBest(rootScores, gameAtCall.turn = "w")])
           ELSE IF depth >= 2
           THEN result = FullChoice(gameAtCall, depth - 1)
           ELSE result = NullResult

C11_Witness ==
    /\ pc = "done"
    /\ Hard
    /\ late
    /\ depth >= 2
    /\ rootScores # <<>>
    /\ Len(rootScores) < Len(orderedMoves)
    /\ result # FullChoice(gameAtCall, depth - 1)
    /\ result = AIMove(orderedMoves[FirstBest(rootScores, gameAtCall.turn = "w")])

\* C12: once the deadline has passed in the loop over the root moves, no further root
\* move is scored at this depth, and the move selected after the loop is the first
\* best-scored of the moves scored at this depth, or the move selected before when no
\* move was scored at this depth.
C12_PartialDepthRule ==
    [][/\ (pc = "root" /\ late)
           => (pc' = "depthEnd" /\ rootScores' = rootScores /\ evals' = evals)
       /\ (DepthEnd /\ late)
           => selectedMove' = (IF rootScores = <<>> THEN selectedMove
                               ELSE orderedMoves[FirstBest(rootScores, gameAtCall.turn = "w")])
      ]_vars

C12_Witness ==
    /\ pc = "depthEnd"
    /\ late
    /\ depth >= 2
    /\ rootScores # <<>>
    /\ Len(rootScores) < Len(orderedMoves)
    /\ bestMove # selectedMove

\* C13: the move the watchdog plays when the engine has delivered no bestmove in time is
\* the move a ChessAI search (hard tier, some depth up to MaxDepth, deadline not passing)
\* returns for the position that was sent to the engine.
C13_FallbackIsSearchOutput ==
    (pc = "played" /\ screen.source = "fallback")
        => screen.played \in {FullChoice(screen.fenNow, d) : d \in 1..MaxDepth}

\* C14: writing to the object given to the constructor, or to the object getSettings
\* returned, leaves this.settings as it is, and updateSettings leaves every field it is
\* not given as it is.
C14_SettingsValueSemantics ==
    [][/\ (MutateGiven \/ MutateGot) => settings' = settings
       /\ UpdateSettings
           => \A f \in DOMAIN settings \ DOMAIN objects'.update : settings'[f] = settings[f]
      ]_vars

\* C15: a minimax call made once the deadline has passed, or with depth 0, or on a
\* game-over position, returns evaluatePosition of its position and generates no moves;
\* a search generates moves in no more calls than read the clock before the deadline; and
\* once the deadline has passed in the hard tier's loops, no root move is scored any more
\* and no deeper iteration is begun.
C15_NoExpansionAfterDeadline ==
    /\ [](pc = "searched" =>
            /\ (searchOut.budget = 0 \/ searchOut.depth = 0 \/ isGameOver(game))
                  => /\ searchOut.v = evaluatePosition(game, 0)
                     /\ searchOut.nodes = 0
                     /\ searchOut.evals = 1
            /\ searchOut.budget # NoDeadline => searchOut.nodes <= searchOut.budget)
    /\ [][(late /\ pc \in {"root", "depthEnd"})
             => (evals' = evals /\ depth' = depth /\ pc' \in {"depthEnd", "done"})]_vars

C15_Witness ==
    /\ pc = "searched"
    /\ searchOut.depth = 2
    /\ searchOut.budget = 2
    /\ searchOut.nodes = 2
    /\ searchOut.evals > 2

\* C16 as stated: when the deadline passes during the loop over a node's children, the
\* value minimax returns is the one accumulated over the children whose call began before
\* the deadline passed.
C16_PartialValueOnly ==
    DeadlineInLoop
        => searchOut.v = ExploredInTime(game, searchOut.depth, searchOut.budget).v

\* C16 as amended: when the deadline passes during the loop over a node's children, the
\* loop still goes through the remaining children, each of them scored by evaluatePosition
\* of the position after the move, and the value returned (full window) is the max or min
\* of the value accumulated before and of these scores.
C16_RestScoredStatically ==
    DeadlineInLoop
        => LET e    == ExploredInTime(game, searchOut.depth, searchOut.budget)
               rest == {evaluatePosition(MakeMove(game, e.ms[j]), 0) :
                          j \in (e.k + 1)..Len(e.ms)}
           IN  searchOut.v = (IF game.turn = "w" THEN SetMax(rest \cup {e.v})
                              ELSE SetMin(rest \cup {e.v}))

C16_Witness ==
    /\ DeadlineInLoop
    /\ searchOut.depth = 2
    /\ LET e == ExploredInTime(game, searchOut.depth, searchOut.budget)
       IN  e.k >= 1 /\ searchOut.v # e.v

\* C17: when the deadline does not pass, the hard tier ends at the configured depth with
\* every root move scored by its minimax value, and returns the earliest move, in the
\* capture-first order, whose score is the largest (White to move) or the smallest
\* (Black to move).
C17_RootTieBreak ==
    (pc = "done" /\ Hard /\ ~late /\ HasMoves(gameAtCall))
        => LET scores == [i \in 1..Len(orderedMoves) |->
                            FullMinimax(MakeMove(gameAtCall, orderedMoves[i]),
                                        settings.depth - 1)]
           IN  /\ depth = settings.depth
               /\ rootScores = scores
               /\ result = AIMove(orderedMoves[FirstBest(scores, gameAtCall.turn = "w")])

C17_Witness ==
    /\ pc = "done"
    /\ Hard
    /\ ~late
    /\ \E i, j \in 1..Len(rootScores) :
         /\ i < j
         /\ rootScores[i] = rootScores[j]
         /\ i = FirstBest(rootScores, gameAtCall.turn = "w")
         /\ result = AIMove(orderedMoves[i])
         /\ result # AIMove(orderedMoves[j])

\* C18: the medium tier, whatever the configured depth, evaluates every legal move once,
\* on the position after the move and with the medium tier's randomness, with no search
\* below it and no deadline; it returns the earliest move, in the capture-first order,
\* whose drawn score is the largest (White to move) or the smallest (Black to move) of the
\* scores drawn, and the moves[0] fallback is not taken.
C18_MediumOnePly ==
    (pc = "done" /\ settings.difficulty = "medium" /\ HasMoves(gameAtCall))
        => /\ Len(rootScores) = Len(moves(gameAtCall))
           /\ evals = Len(moves(gameAtCall))
           /\ cuts = 0 /\ ~late
           /\ \A i \in 1..Len(rootScores) :
                 rootScores[i] \in {evaluatePosition(MakeMove(gameAtCall, orderedMoves[i]), a) :
                                     a \in noise("medium")}
           /\ bestMove # NullMove
           /\ result = AIMove(orderedMoves[FirstBest(rootScores, gameAtCall.turn = "w")])

C18_Witness ==
    /\ pc = "done"
    /\ settings.difficulty = "medium"
    /\ settings.depth = 1
    /\ Len(rootScores) >= 3
    /\ \E i, j \in 1..Len(rootScores) :
         /\ i < j
         /\ rootScores[i] = rootScores[j]
         /\ i = FirstBest(rootScores, gameAtCall.turn = "w")
    /\ result # FullChoice(gameAtCall, 1)

\* C19: the ordered moves of the medium and hard tiers' root loops, and those of minimax
\* at the node it is called on and at the node's children, are the legal moves with
\* every capture before every other move and each group in the rules engine's order.
C19_CapturesFirstStableOrder ==
    /\ (pc \in {"medium", "root", "depthEnd"})
          => CapturesFirstStable(orderedMoves, moves(gameAtCall))
    /\ (pc = "searched")
          => \A g \in {game} \cup Successors(game) :
                CapturesFirstStable(sortCapturesFirst(moves(g)), moves(g))

C19_Witness ==
    /\ pc = "root"
    /\ orderedMoves # moves(gameAtCall)
    /\ orderedMoves[1].captured # ""
    /\ moves(gameAtCall)[1].captured = ""
    /\ Len(orderedMoves) >= 3
    /\ CapturesFirstStable(orderedMoves, moves(gameAtCall))

\* C20: the noise-free evaluation of a position that is neither checkmate nor draw is the
\* sum, over the pieces, of material value plus the table entry at (row, file), the row
\* being the rank index of the board grid for a White piece and 7 minus it for a Black
\* piece, added for White and subtracted for Black.
C20_TableOrientation ==
    (pc = "evaluated" /\ evalOut.difficulty = "hard"
        /\ ~isCheckmate(game) /\ ~isDraw(game))
        => evalOut.score = OrientedScore(game.board, DOMAIN game.board)

\* C21: for a position that is neither checkmate nor draw, the evaluation differs from
\* the material-plus-positional score by at most 1 in the easy tier, by at most 0.5 in
\* the medium tier and by nothing in the hard tier; a checkmate scores 1000 or -1000 and
\* a draw that is no checkmate scores 0 in every tier, with no randomness added.
C21_NoiseBounds ==
    (pc = "evaluated")
        => LET d == evalOut.score - boardScore(game.board, DOMAIN game.board)
           IN  IF isCheckmate(game) THEN evalOut.score \in {-10000, 10000}
               ELSE IF isDraw(game) THEN evalOut.score = 0
               ELSE /\ evalOut.difficulty = "easy" => (-10 <= d /\ d <= 10)
                    /\ evalOut.difficulty = "medium" => (-5 <= d /\ d <= 5)
                    /\ evalOut.difficulty = "hard" => d = 0

C21_Witness ==
    /\ pc = "evaluated"
    /\ evalOut.difficulty = "easy"
    /\ ~isCheckmate(game) /\ ~isDraw(game)
    /\ evalOut.score - boardScore(game.board, DOMAIN game.board) = -10

\* C23: in every minimax call made for a root move of the hard tier, at the root's child
\* and at every ply below it, isMaximizing is TRUE exactly when White is to move in the
\* position the call is given; so it is in a direct call made as the root makes them.
C23_FlagIsSideToMove ==
    /\ (pc \in {"root", "depthEnd", "done"} /\ Hard) => wrong = 0
    /\ (pc = "searched") => searchOut.wrong = 0

C23_Witness ==
    /\ pc = "root"
    /\ Hard
    /\ depth = 3
    /\ idx > 1
    /\ evals >= 4
    /\ wrong = 0

\* A getBestMove call is running: it has begun and has not returned.
Running == pc \in {"easy", "medium", "root", "depthEnd"}

\* What a running call has left to do, as a natural number: the depths still to search
\* times the length of a depth's round, plus what is left of the running round.
CallRank ==
    LET round == Len(orderedMoves) + 2
    IN  IF pc = "easy" THEN 1
        ELSE IF pc = "medium" THEN round - idx
        ELSE (settings.depth - depth) * round + (IF pc = "root" THEN round - idx ELSE 0)

\* C22: every getBestMove call returns, with a move or with none, for every position,
\* tier, depth and behaviour of the clock, a deadline that never passes included: each
\* step of a running call returns or lowers what the call has left to do, which is never
\* below zero, and no step throws; and from the call's beginning to its return no other
\* work runs: the settings objects and the screen stay as they are.
C22_AlwaysReturns ==
    /\ [](Running => CallRank >= 0)
    /\ [](pc # "threw")
    /\ [][Running => (pc' = "done" \/ (Running' /\ CallRank' < CallRank))]_vars
    /\ [][Running => UNCHANGED <<settings, objects, screen, app>>]_vars

C22_Witness ==
    /\ pc = "done"
    /\ Hard
    /\ ~late
    /\ depth = MaxDepth
    /\ result # NullResult

(***************************************************************************)
(* Properties of the screen, checked under ScreenSpec                      *)
(***************************************************************************)

\* C24: for each search started by makeAIMove at most one move is applied: once the
\* bestmove handler has applied the engine's move, the watchdog armed for that search
\* never replaces the game with its fallback position.  A step in which a watchdog's
\* callback applies its quick move is a step of a watchdog whose search has not had its
\* bestmove applied.
C24_OneMovePerSearch ==
    [][(app.mounted /\ app'.wdResume = app.wdResume + 1)
          => \A t \in app.timers \ app'.timers : ~t.applied]_vars

\* C25: after resetGame the game is the initial position with isAITurn false, and stays
\* so until the user makes a move: no watchdog and no bestmove of a search started
\* before the reset changes the game.
C25_ResetHolds ==
    (app.mounted /\ app.sinceReset) => (app.game = InitialPosition /\ ~app.isAITurn)

\* A step that comes without the user is left to be taken: the effect that hands the
\* turn to the AI, the 50 ms timer, a watchdog, an answer of the engine to a search, or
\* the continuation of a handler that awaits its sound.
Scheduled ==
    \/ app.game.turn = "b" /\ ~app.isAITurn /\ ~isGameOver(app.game)
    \/ app.aiTimer
    \/ app.timers # {}
    \/ app.searches # {}
    \/ app.wdResume > 0
    \/ app.bmResume > 0

\* C26: whenever Black is to move and the game is not over, a Black move is eventually
\* applied and isAITurn becomes false, whatever the engine answers, provided timers and
\* callbacks eventually fire.  A run of finite length refutes it when it ends with Black
\* to move, the game not over, and no timer, effect, message or continuation left that
\* could ever fire: so the claim requires that in every such state one of them is left.
C26_BlackMoveComes ==
    (app.mounted /\ app.game.turn = "b" /\ ~isGameOver(app.game)) => Scheduled

\* C27: onMove rejects without effect.  When isAITurn is true, or the requested move is
\* not a legal move of the current position, onMove returns false and leaves game and
\* isAITurn as they were; when it accepts, the move was a legal move of the current
\* position, and isAITurn is true afterwards exactly if Black is then to move and the
\* game is not over.  (didMove is what the call of onMove made by the step came to.)
C27_RejectsWithoutEffect ==
    [][(app.mounted /\ app' # app /\ app'.didMove # "")
          => /\ app'.didMove \in {"true", "false"}
             /\ app'.didMove = "false"
                  => (app'.game = app.game /\ app'.isAITurn = app.isAITurn)
             /\ app'.didMove = "true"
                  => /\ ~app.isAITurn
                     /\ \E sq \in app.legalTargets :
                          LET m == moveByCoordinates(app.game, app.selectedSquare, sq, "q")
                          IN  /\ m # NullMove
                              /\ app'.game = MakeMove(NewChessFromFen(app.game), m)
                     /\ app'.isAITurn
                          = (app'.game.turn = "b" /\ ~isGameOver(app'.game))]_vars

\* C28: at any time at most one search of the engine is outstanding (a 'go' sent and
\* not answered by a bestmove) and at most one watchdog is pending.
C28_OneSearchOneWatchdog ==
    app.mounted => (Cardinality(app.searches) <= 1 /\ Cardinality(app.timers) <= 1)

\* The part of C28 about the watchdogs, on its own.
OneWatchdog == app.mounted => Cardinality(app.timers) <= 1

\* C29: the user only ever moves White: every move that a tap applies through onMove is
\* made in a position with White to move, also in the states in which Black is to move
\* and isAITurn is still false, and with a selection made before a reset.
C29_HumanMovesWhite ==
    [][(app.mounted /\ app' # app /\ app'.didMove = "true") => app.game.turn = "w"]_vars

\* C30: the selection of ChessBoard.  selectedSquare is null exactly when legalTargets is
\* empty.  A tap on the selected square, or on a square with no legal targets, clears
\* both: a tap that leaves a square selected has selected another square than before,
\* with its targets, of which there are some.  A tap on a listed target attempts the
\* move and then clears both whether or not the move succeeded: at once when it did not
\* succeed, and after the sound when it did.
C30_SelectionInvariant ==
    /\ [](app.mounted => ((app.selectedSquare = NoSquare) <=> (app.legalTargets = {})))
    /\ [][(HandleTap /\ app' # app)
             => /\ app'.didMove \in {"false", "threw"}
                     => (app'.selectedSquare = NoSquare /\ app'.legalTargets = {})
                /\ (app'.didMove = "" /\ app'.selectedSquare # NoSquare)
                     => /\ app'.selectedSquare # app.selectedSquare
                        /\ app'.legalTargets # {}
                        /\ app'.legalTargets
                             = computeLegalTargets(app.game, app'.selectedSquare,
                                                   ~app.isAITurn)]_vars
    /\ [][TapResume => (app'.selectedSquare = NoSquare /\ app'.legalTargets = {})]_vars
====
